---- MODULE Spec2Model ----
(***************************************************************************)
(* ClickEncoder: rotary encoder driver with acceleration and a click /    *)
(* double-click / hold button classifier (src/ClickEncoder.cpp).           *)
(*                                                                         *)
(* service() is the periodic tick handler (timer ISR); getValue() and      *)
(* getButton() are the application's polls.  service() runs to completion  *)
(* and may preempt a poll between any two of its steps, except inside the  *)
(* noInterrupts()/interrupts() section of getValue().                      *)
(***************************************************************************)
EXTENDS Integers, FiniteSets, Sequences, TLC

\* ------------------------------------------------------------------------
\* Program constants
ENC_BUTTONINTERVAL == 10
ENC_ACCEL_TOP == 3072
ENC_ACCEL_INC == 25
ENC_ACCEL_DEC == 2
ENC_SINGLECLICKONLY == 1

LOW == FALSE
HIGH == TRUE

Button == {"Open", "Held", "Released", "Clicked", "DoubleClicked"}

\* ------------------------------------------------------------------------
\* Bounds of the model
MaxDelta == 4      \* service() is not run when it would take |delta| past this
MaxTurns == 4      \* phase-line changes the environment makes in a bounded run
MaxIntervals == 14 \* 10 ms clock advances the environment makes in a bounded run
MaxCount == 3      \* observer counters of emitted events saturate here
MaxShort == 3      \* phase-line changes, and clock advances, of the short runs
MaxPos == 8        \* observers follow positions and sums of steps this far from 0
MaxClock == 6      \* clock advances of less than a sampling interval in a bounded run
MaxRun == 150      \* the count of consecutive moving ticks saturates here

StepsPerNotch == {1, 2, 4}
HoldTimes == {20, 30}
DoubleClickTimes == {50, 60}
ShortHoldTimes == {5, 20}

VARIABLES
  \* configuration (set by the constructor or by the build)
  pinA, pinB, pinBTN, pinsActive, steps, decoder,
  \* run-time flags and thresholds
  doubleClickEnabled, buttonHeldEnabled, accelerationEnabled,
  buttonHoldTime, buttonDoubleClickTime,
  \* state of the object
  delta, last, acceleration, button,
  keyDownTicks, doubleClickTicks, lastButtonCheck,
  \* environment: electrical levels of the three lines, the millisecond clock
  levelA, levelB, levelBTN, now,
  \* getValue() in progress: position, local val, value returned last
  pcV, val, rv,
  \* getButton() in progress: position, local ret
  pcB, ret,
  \* environment budgets (-1: unlimited)
  turnsLeft, intervalsLeft,
  \* observers (history variables; never read by the program)
  applied, extracted,
  idleTicks, idleFrom,
  seenIdx, trkDir, trkCnt, drainCnt, polledEach, sumR, nzPolls,
  erased, entry, prevRet,
  holdSeen,
  presses, gap, gap2, nClicked, nDouble,
  \* observer of the last service() call: the state it found, what it did
  tick

cfgVars == <<pinA, pinB, pinBTN, pinsActive, steps, decoder,
             buttonHoldTime, buttonDoubleClickTime>>
flagVars == <<doubleClickEnabled, buttonHeldEnabled, accelerationEnabled>>
encVars == <<delta, last, acceleration>>
btnVars == <<button, keyDownTicks, doubleClickTicks, lastButtonCheck>>
envVars == <<levelA, levelB, levelBTN, now, turnsLeft, intervalsLeft>>
valVars == <<pcV, val, rv>>
getVars == <<pcB, ret>>
obsEnc == <<applied, extracted, idleTicks, idleFrom, seenIdx, trkDir, trkCnt, drainCnt,
            polledEach, sumR, nzPolls>>
obsBtn == <<erased, entry, prevRet, holdSeen,
            presses, gap, gap2, nClicked, nDouble>>
vars == <<cfgVars, flagVars, encVars, btnVars, envVars, valVars, getVars,
          obsEnc, obsBtn, tick>>

\* ------------------------------------------------------------------------
\* Arithmetic helpers
Abs(x) == IF x < 0 THEN -x ELSE x
Sign(x) == IF x < 0 THEN -1 ELSE IF x > 0 THEN 1 ELSE 0
Min(x, y) == IF x < y THEN x ELSE y

\* int16_t / uint16_t wrap-around
Int16(x) == ((x + 32768) % 65536) - 32768
UInt16(x) == x % 65536

\* unsigned long (32 bits), as its two 16 bit halves: wrap-around addition of
\* a small number, wrap-around subtraction (and, a mutant, the subtraction of
\* the halves without borrow), comparison with a small number
Millis(h, l) == [hi |-> h, lo |-> l]
Add32(x, n) ==
  Millis((x.hi + ((x.lo + n) \div 65536)) % 65536, (x.lo + n) % 65536)
Sub32NoBorrow(x, y) ==
  Millis((x.hi - y.hi) % 65536, (x.lo - y.lo) % 65536)
Sub32(x, y) ==
  Millis((x.hi - y.hi - (IF x.lo < y.lo THEN 1 ELSE 0)) % 65536,
         (x.lo - y.lo) % 65536)
GreaterEq32(x, n) == x.hi > 0 \/ x.lo >= n

\* (mutant) bit 1 inverted
BitAnd2Inverted(x) == 2 - 2 * ((x \div 2) % 2)

\* x & 1 and x & 2 on a two's complement integer
BitAnd1(x) == x % 2
BitAnd2(x) == 2 * ((x \div 2) % 2)

\* digitalRead(pin): a pin that does not exist reads LOW
DigitalRead(pin, level) == IF pin < 0 THEN LOW ELSE level

\* digitalRead(pin) == pinsActive
ReadActive(pin, level) == DigitalRead(pin, level) = pinsActive

\* ------------------------------------------------------------------------
\* Quadrature decoder

\* decoding table for normal hardware, and for hardware with a flaky notch
table == <<0, 1, -1, 0, -1, 0, 0, 1, 1, 0, 0, -1, 0, -1, 1, 0>>
tableHalfStep == <<0, 0, -1, 0, 0, 0, 0, 1, 1, 0, 0, 0, 0, -1, 0, 0>>

\* curr = 0; if (A active) curr = 3; if (B active) curr ^= 1;
PhaseCode(a, b) == IF a THEN (IF b THEN 2 ELSE 3) ELSE (IF b THEN 1 ELSE 0)

\* (mutant) any difference between last and curr is taken for a step
DecodeNormalAny(lst, a, b) ==
  LET curr == PhaseCode(a, b)
      diff == lst - curr
  IN  IF diff # 0
      THEN [last |-> curr, step |-> BitAnd2(diff) - 1, moved |-> TRUE]
      ELSE [last |-> lst, step |-> 0, moved |-> FALSE]

\* ENC_NORMAL: diff = last - curr; bit 0 = step, bit 1 = direction
DecodeNormal(lst, a, b) ==
  LET curr == PhaseCode(a, b)
      diff == lst - curr
  IN  IF BitAnd1(diff) = 1
      THEN [last |-> curr, step |-> BitAnd2(diff) - 1, moved |-> TRUE]
      ELSE [last |-> lst, step |-> 0, moved |-> FALSE]

\* ENC_FLAKY: four bit history, looked up in the table
DecodeFlaky(lst, a, b, tab) ==
  LET hist == ((lst * 4) % 16) + (IF a THEN 2 ELSE 0) + (IF b THEN 1 ELSE 0)
      tbl == tab[hist + 1]
  IN  [last |-> hist, step |-> tbl, moved |-> tbl # 0]

Decode(lst, a, b) ==
  IF decoder = "NORMAL" THEN DecodeNormal(lst, a, b)
  ELSE IF decoder = "FLAKY" THEN DecodeFlaky(lst, a, b, table)
  ELSE DecodeFlaky(lst, a, b, tableHalfStep)

\* (mutant) decay by one a tick
DecelerateByOne(acc) ==
  IF acc >= 1 THEN acc - 1 ELSE 0

\* decelerate every tick
Decelerate(acc) ==
  IF acc >= ENC_ACCEL_DEC THEN acc - ENC_ACCEL_DEC ELSE 0

\* (mutant) the ceiling is tested before the increment is added
AccelerateLate(acc) ==
  IF acc <= ENC_ACCEL_TOP THEN acc + ENC_ACCEL_INC ELSE acc

\* (mutant) the increment is barely larger than the decay
AccelerateSlow(acc) ==
  IF acc <= ENC_ACCEL_TOP - ENC_ACCEL_INC THEN acc + ENC_ACCEL_DEC + 1 ELSE acc

\* increment accelerator if encoder has been moved
Accelerate(acc) ==
  IF acc <= ENC_ACCEL_TOP - ENC_ACCEL_INC THEN acc + ENC_ACCEL_INC ELSE acc

\* The encoder part of service(): the new delta, last and acceleration, the
\* step applied to delta and whether the decoder reported movement.
EncoderTick ==
  IF pinA >= 0 /\ pinA >= 0
  THEN LET acc1 == IF accelerationEnabled THEN Decelerate(acceleration)
                   ELSE acceleration
           dec == Decode(last, ReadActive(pinA, levelA), ReadActive(pinB, levelB))
       IN  [delta |-> Int16(delta + dec.step),
            last |-> dec.last,
            acceleration |-> IF accelerationEnabled /\ dec.moved
                             THEN Accelerate(acc1) ELSE acc1,
            step |-> dec.step,
            moved |-> dec.moved]
  ELSE [delta |-> delta, last |-> last, acceleration |-> acceleration,
        step |-> 0, moved |-> FALSE]

\* ------------------------------------------------------------------------
\* Button classifier (one sampling interval)

HoldTicks == buttonHoldTime \div ENC_BUTTONINTERVAL
DoubleClickWindow == buttonDoubleClickTime \div ENC_BUTTONINTERVAL

\* key is down
KeyDown(s) ==
  LET k == UInt16(s.keyDownTicks + 1)
  IN  [s EXCEPT !.keyDownTicks = k,
                !.button = IF k > HoldTicks /\ buttonHeldEnabled
                           THEN "Held" ELSE @]

\* (mutant) the countdown is armed with the whole window whatever the flag
KeyUpArmWindow(s) ==
  LET t == [s EXCEPT !.keyDownTicks = 0]
  IN  IF s.keyDownTicks > 1
      THEN IF s.button = "Held"
           THEN [t EXCEPT !.button = "Released", !.doubleClickTicks = 0]
           ELSE IF s.doubleClickTicks > ENC_SINGLECLICKONLY
                THEN IF s.doubleClickTicks < DoubleClickWindow
                     THEN [t EXCEPT !.button = "DoubleClicked",
                                    !.doubleClickTicks = 0]
                     ELSE t
                ELSE [t EXCEPT !.doubleClickTicks = DoubleClickWindow]
      ELSE t

\* key is now up
KeyUp(s) ==
  LET t == [s EXCEPT !.keyDownTicks = 0]
  IN  IF s.keyDownTicks > 1
      THEN IF s.button = "Held"
           THEN [t EXCEPT !.button = "Released", !.doubleClickTicks = 0]
           ELSE IF s.doubleClickTicks > ENC_SINGLECLICKONLY
                THEN IF s.doubleClickTicks < DoubleClickWindow
                     THEN [t EXCEPT !.button = "DoubleClicked",
                                    !.doubleClickTicks = 0]
                     ELSE t
                ELSE [t EXCEPT !.doubleClickTicks =
                                 IF doubleClickEnabled THEN DoubleClickWindow
                                 ELSE ENC_SINGLECLICKONLY]
      ELSE t

\* (mutant) the countdown runs out without reporting the click
CountdownQuiet(s) ==
  IF s.doubleClickTicks > 0
  THEN [s EXCEPT !.doubleClickTicks = @ - 1]
  ELSE s

\* the click countdown
Countdown(s) ==
  IF s.doubleClickTicks > 0
  THEN [s EXCEPT !.doubleClickTicks = @ - 1,
                 !.button = IF s.doubleClickTicks - 1 = 0 THEN "Clicked" ELSE @]
  ELSE s

\* The gate of the button part: a pin was given and the interval has elapsed.
ButtonDue(currentMillis) ==
  /\ pinBTN >= 0
  /\ GreaterEq32(Sub32(currentMillis, lastButtonCheck), ENC_BUTTONINTERVAL)

\* The button part of service() with the two readings of the button line:
\* the state after the key-down branch (s1), after the key-up branch (s2) and
\* after the countdown (s3).
ButtonTick(rd1, rd2) ==
  LET s0 == [button |-> button, keyDownTicks |-> keyDownTicks,
             doubleClickTicks |-> doubleClickTicks]
      s1 == IF rd1 = pinsActive THEN KeyDown(s0) ELSE s0
      s2 == IF rd2 = (~pinsActive) THEN KeyUp(s1) ELSE s1
      s3 == Countdown(s2)
  IN  [s1 |-> s1, s2 |-> s2, s3 |-> s3]

\* ------------------------------------------------------------------------
\* getValue()

\* (mutant) the critical section clears delta
ResidualCleared(v) == 0

\* what the critical section leaves in delta
Residual(v) ==
  IF steps = 2 THEN v % 2
  ELSE IF steps = 4 THEN v % 4
  ELSE 0

\* (mutant) division that truncates toward zero instead of the shift
NotchesTruncated(v) ==
  IF steps = 4 THEN Sign(v) * (Abs(v) \div 4)
  ELSE IF steps = 2 THEN Sign(v) * (Abs(v) \div 2)
  ELSE v

\* val >>= 2 / val >>= 1 (arithmetic shift)
Notches(v) ==
  IF steps = 4 THEN v \div 4
  ELSE IF steps = 2 THEN v \div 2
  ELSE v

\* (mutant) the bonus is granted whatever the flag
BonusUnconditional == acceleration \div 256

\* accel = accelerationEnabled ? (acceleration >> 8) : 0
Bonus == IF accelerationEnabled THEN acceleration \div 256 ELSE 0

Result(v) ==
  IF v < 0 THEN Int16(0 - (1 + Bonus))
  ELSE IF v > 0 THEN Int16(1 + Bonus)
  ELSE 0

\* ------------------------------------------------------------------------
\* getButton()

\* (mutant) Held is reset like the one-shot events
MustResetAlways(b, r) == r # "Open"

\* if (button != Held && ret != Open)
MustReset(b, r) == b # "Held" /\ r # "Open"

\* ------------------------------------------------------------------------
\* Observers

\* Position of a reading in the quadrature cycle 00 -> 01 -> 11 -> 10 (A, B);
\* one place up the cycle is a forward quarter-transition.
QuadIdx(a, b) ==
  IF ~a /\ ~b THEN 0 ELSE IF ~a /\ b THEN 1 ELSE IF a /\ b THEN 2 ELSE 3

\* idle ticks that take the top level down to 0
IdleTicks == ENC_ACCEL_TOP \div ENC_ACCEL_DEC

Bump(n) == Min(n + 1, MaxCount)

TrackOff ==
  /\ seenIdx' = 0 /\ trkDir' = 0 /\ trkCnt' = -1 /\ drainCnt' = 0
  /\ polledEach' = FALSE /\ sumR' = 0 /\ nzPolls' = 0

\* The detent observer follows the first run of quarter-transitions after
\* construction: trkCnt of them, all in direction trkDir, as read by service().
TrackReading ==
  LET idx == QuadIdx(ReadActive(pinA, levelA), ReadActive(pinB, levelB))
      q == (idx - seenIdx) % 4
      dirP == IF q = 1 THEN 1 ELSE -1
  IN  IF trkCnt < 0 \/ q = 2 THEN TrackOff
      ELSE IF q = 0 THEN UNCHANGED <<seenIdx, trkDir, trkCnt, drainCnt,
                                      polledEach, sumR, nzPolls>>
      ELSE IF trkCnt = 0 \/ (dirP = trkDir /\ trkCnt < steps)
      THEN /\ seenIdx' = idx
           /\ trkDir' = dirP
           /\ trkCnt' = trkCnt + 1
           /\ polledEach' = (polledEach /\ pcV = "idle" /\ drainCnt = trkCnt)
           /\ UNCHANGED <<drainCnt, sumR, nzPolls>>
      ELSE TrackOff

PressOff ==
  /\ presses' = -1 /\ gap' = 0 /\ gap2' = 0 /\ nClicked' = 0 /\ nDouble' = 0

\* The press observer follows the button from construction: the valid short
\* presses released so far, the sampling intervals from the first release to
\* now (gap) and to the second release (gap2), the events service() emitted.
TrackButton(rd1, rd2, b) ==
  LET validRel == rd2 = (~pinsActive) /\ b.s1.keyDownTicks > 1
      short == /\ validRel
               /\ b.s1.button # "Held"
               /\ b.s1.keyDownTicks <= HoldTicks
      emitDouble == /\ b.s2.button = "DoubleClicked"
                    /\ b.s1.doubleClickTicks > 0
                    /\ b.s2.doubleClickTicks = 0
      emitClicked == /\ b.s3.button = "Clicked"
                     /\ b.s2.doubleClickTicks > 0
                     /\ b.s3.doubleClickTicks = 0
      g == IF presses >= 1 THEN Min(gap + 1, DoubleClickWindow + 2) ELSE 0
  IN  /\ holdSeen' = /\ rd1 = pinsActive /\ rd2 = pinsActive
                     /\ (holdSeen \/ (buttonHeldEnabled
                                      /\ b.s1.keyDownTicks > HoldTicks))
      /\ IF presses < 0 \/ (validRel /\ ~short) THEN PressOff
         ELSE /\ presses' = IF short THEN Bump(presses) ELSE presses
              /\ gap' = g
              /\ gap2' = IF short /\ presses = 1 THEN g ELSE gap2
              /\ nClicked' = IF emitClicked THEN Bump(nClicked) ELSE nClicked
              /\ nDouble' = IF emitDouble THEN Bump(nDouble) ELSE nDouble

\* The phase levels recorded in last: the code of the constructor and of the
\* Normal decoder (0, 1, 2, 3 for A/B = 00, 01, 11, 10), the two low bits of
\* the Flaky decoder's history (A in bit 1, B in bit 0).
RecordedA(lst) ==
  IF decoder = "NORMAL" THEN lst \in {2, 3} ELSE (lst \div 2) % 2 = 1
RecordedB(lst) ==
  IF decoder = "NORMAL" THEN lst \in {1, 2} ELSE lst % 2 = 1

Max(x, y) == IF x > y THEN x ELSE y

\* The observers' sums are followed up to MaxPos either side of 0.
Follow(x) == Max(-MaxPos, Min(MaxPos, x))

\* The observer of service() calls when it is not followed.
TickOff ==
  [n |-> -1, delta |-> 0, last |-> 0, acceleration |-> 0, button |-> "Open",
   keyDownTicks |-> 0, doubleClickTicks |-> 0, lastButtonCheck |-> Millis(0, 0),
   now |-> Millis(0, 0), moved |-> FALSE, step |-> 0, chg |-> 0,
   same |-> TRUE, lvA |-> HIGH, lvB |-> HIGH,
   ran |-> FALSE, elapsed |-> 0, el |-> 0,
   rel |-> FALSE, up |-> FALSE, maxDown |-> 0,
   last0 |-> 0, idx |-> 0, clean |-> TRUE, pos |-> 0, run |-> 0]

\* The observer right after construction, el the milliseconds from
\* lastButtonCheck to now.
TickStart(el) ==
  [TickOff EXCEPT !.n = 0, !.last = last, !.last0 = last,
                  !.lvA = levelA, !.lvB = levelB,
                  !.idx = QuadIdx(ReadActive(pinA, levelA),
                                  ReadActive(pinB, levelB)),
                  !.now = now, !.el = el, !.elapsed = el]

\* The observer after a service() call that found the current state, with e
\* the outcome of its encoder part, due whether its button part ran and b the
\* outcome of its button part, rd2 the second reading of the button line.
TickOf(e, due, b, rd2) ==
  LET a == ReadActive(pinA, levelA)
      bb == ReadActive(pinB, levelB)
      idx == QuadIdx(a, bb)
      q == (idx - tick.idx) % 4
      up == due /\ rd2 = (~pinsActive)
  IN  [n |-> Bump(tick.n),
       delta |-> delta, last |-> last, acceleration |-> acceleration,
       button |-> button, keyDownTicks |-> keyDownTicks,
       doubleClickTicks |-> doubleClickTicks,
       lastButtonCheck |-> lastButtonCheck, now |-> now,
       moved |-> e.moved, step |-> e.step,
       chg |-> (IF a # RecordedA(last) THEN 1 ELSE 0)
               + (IF bb # RecordedB(last) THEN 1 ELSE 0),
       same |-> (levelA = tick.lvA /\ levelB = tick.lvB),
       lvA |-> levelA, lvB |-> levelB,
       ran |-> due, elapsed |-> tick.el, el |-> IF due THEN 0 ELSE tick.el,
       rel |-> (up /\ b.s1.keyDownTicks > 1 /\ b.s1.button # "Held"),
       up |-> up,
       maxDown |-> IF due THEN Max(tick.maxDown, Min(b.s1.keyDownTicks, 2))
                   ELSE tick.maxDown,
       last0 |-> tick.last0, idx |-> idx,
       clean |-> (tick.clean /\ q # 2),
       pos |-> Follow(tick.pos
                      + (IF q = 1 THEN 1 ELSE IF q = 3 THEN -1 ELSE 0)),
       run |-> IF e.moved THEN Min(tick.run + 1, MaxRun) ELSE 0]

\* ------------------------------------------------------------------------
\* service(): the whole tick handler.  lvl2 is the level of the button line
\* at the second digitalRead(pinBTN) of the call.
Service ==
  \E lvl2 \in BOOLEAN :
    LET e == EncoderTick
        due == ButtonDue(now)
        b == ButtonTick(DigitalRead(pinBTN, levelBTN), DigitalRead(pinBTN, lvl2))
    IN  /\ Abs(e.delta) <= MaxDelta
        /\ delta' = e.delta
        /\ last' = e.last
        /\ acceleration' = e.acceleration
        /\ IF due
           THEN /\ lastButtonCheck' = now
                /\ button' = b.s3.button
                /\ keyDownTicks' = b.s3.keyDownTicks
                /\ doubleClickTicks' = b.s3.doubleClickTicks
                /\ levelBTN' = lvl2
                /\ TrackButton(levelBTN, lvl2, b)
           ELSE /\ lvl2 = levelBTN
                /\ UNCHANGED <<btnVars, levelBTN, holdSeen,
                               presses, gap, gap2, nClicked, nDouble>>
        /\ applied' = Follow(applied + e.step)
        /\ idleTicks' = IF idleTicks < 0 \/ e.moved THEN -1
                        ELSE Min(idleTicks + 1, IdleTicks)
        /\ IF pinA >= 0 /\ pinA >= 0 THEN TrackReading
           ELSE UNCHANGED <<seenIdx, trkDir, trkCnt, drainCnt, polledEach,
                            sumR, nzPolls>>
        /\ entry' = IF pcB # "idle" THEN "spoiled" ELSE entry
        /\ prevRet' = "none"
        /\ tick' = IF tick.n < 0 THEN tick
                   ELSE TickOf(e, due, b, DigitalRead(pinBTN, lvl2))
        /\ UNCHANGED <<cfgVars, idleFrom, flagVars, levelA, levelB, now, turnsLeft,
                       intervalsLeft, valVars, getVars, extracted, erased>>

\* ------------------------------------------------------------------------
\* getValue(), in two steps: the section with interrupts masked, and the rest.
GetValueDrain ==
  /\ pcV = "idle"
  /\ val' = delta
  /\ delta' = Residual(delta)
  /\ pcV' = "scale"
  /\ drainCnt' = IF trkCnt >= 0 THEN trkCnt ELSE drainCnt
  /\ polledEach' = (polledEach /\ ~(trkCnt >= 1 /\ drainCnt = trkCnt))
  /\ UNCHANGED <<cfgVars, idleFrom, tick, flagVars, last, acceleration, btnVars, envVars, rv,
                 getVars, applied, extracted, idleTicks, seenIdx, trkDir, trkCnt,
                 sumR, nzPolls, obsBtn>>

GetValueReturn ==
  /\ pcV = "scale"
  /\ LET n == Notches(val)
         r == Result(n)
     IN  /\ rv' = r
         /\ extracted' = Follow(extracted + n)
         /\ sumR' = IF trkCnt >= 0 THEN sumR + r ELSE sumR
         /\ nzPolls' = IF trkCnt >= 0 /\ r # 0 THEN Bump(nzPolls) ELSE nzPolls
  /\ val' = 0
  /\ pcV' = "idle"
  /\ UNCHANGED <<cfgVars, idleFrom, tick, flagVars, encVars, btnVars, envVars, getVars, applied,
                 idleTicks, seenIdx, trkDir, trkCnt, drainCnt, polledEach, obsBtn>>

\* ------------------------------------------------------------------------
\* getButton(), one step per access to the shared button
GetButtonRead ==
  /\ pcB = "idle"
  /\ ret' = button
  /\ entry' = button
  /\ pcB' = "test"
  /\ UNCHANGED <<cfgVars, idleFrom, tick, flagVars, encVars, btnVars, envVars, valVars, obsEnc,
                 erased, prevRet, holdSeen, presses, gap, gap2, nClicked, nDouble>>

GetButtonTest ==
  /\ pcB = "test"
  /\ pcB' = IF MustReset(button, ret) THEN "reset" ELSE "return"
  /\ UNCHANGED <<cfgVars, idleFrom, tick, flagVars, encVars, btnVars, envVars, valVars, ret,
                 obsEnc, obsBtn>>

GetButtonReset ==
  /\ pcB = "reset"
  /\ button' = "Open"
  /\ erased' = IF erased = "none" /\ button # ret THEN button ELSE erased
  /\ pcB' = "return"
  /\ UNCHANGED <<cfgVars, idleFrom, tick, flagVars, encVars, keyDownTicks, doubleClickTicks,
                 lastButtonCheck, envVars, valVars, ret, obsEnc, entry, prevRet,
                 holdSeen, presses, gap, gap2, nClicked, nDouble>>

GetButtonReturn ==
  /\ pcB = "return"
  /\ pcB' = "idle"
  /\ prevRet' = IF entry = "spoiled" THEN "none" ELSE ret
  /\ entry' = "none"
  /\ ret' = "Open"
  /\ UNCHANGED <<cfgVars, idleFrom, tick, flagVars, encVars, btnVars, envVars, valVars, obsEnc,
                 erased, holdSeen, presses, gap, gap2, nClicked, nDouble>>

\* ------------------------------------------------------------------------
\* The application's setter
SetAccelerationEnabled ==
  /\ accelerationEnabled' = ~accelerationEnabled
  /\ idleTicks' = -1
  /\ UNCHANGED <<cfgVars, idleFrom, tick, doubleClickEnabled, buttonHeldEnabled, encVars,
                 btnVars, envVars, valVars, getVars, applied, extracted, seenIdx,
                 trkDir, trkCnt, drainCnt, polledEach, sumR, nzPolls, obsBtn>>

\* ------------------------------------------------------------------------
\* Environment: the knob moves one phase line, the button line changes, the
\* millisecond clock passes one sampling interval (service() is called at
\* least once in every interval).
Spend(n) == IF n > 0 THEN n - 1 ELSE n

Turn ==
  /\ pinA >= 0
  /\ turnsLeft # 0
  /\ turnsLeft' = Spend(turnsLeft)
  /\ \E line \in {"A", "B"} :
       /\ levelA' = IF line = "A" THEN ~levelA ELSE levelA
       /\ levelB' = IF line = "B" THEN ~levelB ELSE levelB
  /\ UNCHANGED <<cfgVars, idleFrom, tick, flagVars, encVars, btnVars, levelBTN, now,
                 intervalsLeft, valVars, getVars, obsEnc, obsBtn>>

\* The knob in continuous motion: one quarter-transition, always in the same
\* direction, between every two service() calls.
Spin ==
  /\ pinA >= 0
  /\ tick.n >= 0
  /\ levelA = tick.lvA /\ levelB = tick.lvB
  /\ \E dir \in {1, -1} :
       LET idx == (tick.idx + dir) % 4
       IN  /\ Sign(tick.pos) \in {0, dir}
           /\ levelA' = IF idx \in {2, 3} THEN pinsActive ELSE ~pinsActive
           /\ levelB' = IF idx \in {1, 2} THEN pinsActive ELSE ~pinsActive
  /\ UNCHANGED <<cfgVars, idleFrom, tick, flagVars, encVars, btnVars, levelBTN, now,
                 turnsLeft, intervalsLeft, valVars, getVars, obsEnc, obsBtn>>

\* service() called while the knob is in continuous motion: the phase lines
\* have changed since the last call.
ServiceInMotion ==
  /\ levelA # tick.lvA \/ levelB # tick.lvB
  /\ Service

PushButton ==
  /\ pinBTN >= 0
  /\ levelBTN' = ~levelBTN
  /\ UNCHANGED <<cfgVars, idleFrom, tick, flagVars, encVars, btnVars, levelA, levelB, now,
                 turnsLeft, intervalsLeft, valVars, getVars, obsEnc, obsBtn>>

Advance ==
  /\ intervalsLeft # 0
  /\ ~GreaterEq32(Sub32(now, lastButtonCheck), ENC_BUTTONINTERVAL)
  /\ intervalsLeft' = Spend(intervalsLeft)
  /\ now' = Add32(now, ENC_BUTTONINTERVAL)
  /\ UNCHANGED <<cfgVars, idleFrom, tick, flagVars, encVars, btnVars, levelA, levelB, levelBTN,
                 turnsLeft, valVars, getVars, obsEnc, obsBtn>>

\* The millisecond clock advances by less than a sampling interval.  The
\* observer counts the milliseconds from lastButtonCheck to now modulo 2^32:
\* up to one sampling interval, or, negative, as the milliseconds missing to
\* 2^32.
ClockSteps == {1, 9}

Clock ==
  /\ intervalsLeft # 0
  /\ tick.n >= 0
  /\ intervalsLeft' = Spend(intervalsLeft)
  /\ \E d \in ClockSteps :
       /\ now' = Add32(now, d)
       /\ tick' = [tick EXCEPT !.el = IF @ < 0 THEN @ + d
                                      ELSE Min(@ + d, ENC_BUTTONINTERVAL)]
  /\ UNCHANGED <<cfgVars, idleFrom, flagVars, encVars, btnVars, levelA, levelB, levelBTN,
                 turnsLeft, valVars, getVars, obsEnc, obsBtn>>

\* ------------------------------------------------------------------------
\* Initial states

\* ClickEncoder(A, B, BTN, stepsPerNotch, active)
Constructor(A, B, BTN, spn, act) ==
  /\ pinA = A /\ pinB = B /\ pinBTN = BTN /\ steps = spn /\ pinsActive = act
  /\ doubleClickEnabled = TRUE /\ buttonHeldEnabled = TRUE
  /\ accelerationEnabled = TRUE
  /\ delta = 0 /\ acceleration = 0 /\ button = "Open"
  /\ last = PhaseCode(ReadActive(A, levelA), ReadActive(B, levelB))

\* ClickEncoder(BTN, active), with the flags the application sets afterwards
ConstructorButton(BTN, act, dc, held) ==
  /\ pinA = -1 /\ pinB = -1 /\ pinBTN = BTN /\ steps = 1 /\ pinsActive = act
  /\ doubleClickEnabled = dc /\ buttonHeldEnabled = held
  /\ accelerationEnabled = TRUE
  /\ delta = 0 /\ acceleration = 0 /\ button = "Open"
  /\ last = 0

\* members the constructors leave to their declarations
Members(hold, dbl) ==
  /\ keyDownTicks = 0 /\ doubleClickTicks = 0 /\ lastButtonCheck = Millis(0, 0)
  /\ buttonHoldTime = hold /\ buttonDoubleClickTime = dbl

NoCall ==
  /\ pcV = "idle" /\ val = 0 /\ rv = 0
  /\ pcB = "idle" /\ ret = "Open"

EncObserversOff ==
  /\ applied = 0 /\ extracted = 0 /\ idleTicks = -1 /\ idleFrom = 0
  /\ seenIdx = 0 /\ trkDir = 0 /\ trkCnt = -1 /\ drainCnt = 0
  /\ polledEach = FALSE /\ sumR = 0 /\ nzPolls = 0

BtnObserversOff ==
  /\ erased = "none" /\ entry = "none" /\ prevRet = "none" /\ holdSeen = FALSE
  /\ presses = -1 /\ gap = 0 /\ gap2 = 0 /\ nClicked = 0 /\ nDouble = 0

\* An encoder without button, at rest after construction; a bounded number of
\* quarter-transitions follows, watched by the detent observer.
InitValue ==
  /\ levelA \in BOOLEAN /\ levelB \in BOOLEAN /\ levelBTN = HIGH /\ now = Millis(0, 0)
  /\ decoder = "NORMAL"
  /\ \E spn \in StepsPerNotch : Constructor(2, 3, -1, spn, LOW)
  /\ Members(1200, 400)
  /\ NoCall
  /\ turnsLeft = MaxTurns /\ intervalsLeft = 0
  /\ tick = TickOff
  /\ applied = 0 /\ extracted = 0 /\ idleTicks = -1 /\ idleFrom = 0
  /\ seenIdx = QuadIdx(ReadActive(pinA, levelA), ReadActive(pinB, levelB))
  /\ trkDir = 0 /\ trkCnt = 0 /\ drainCnt = 0
  /\ polledEach = TRUE /\ sumR = 0 /\ nzPolls = 0
  /\ BtnObserversOff

\* An encoder without button, turned without limit.
InitAccel ==
  /\ levelA \in BOOLEAN /\ levelB \in BOOLEAN /\ levelBTN = HIGH /\ now = Millis(0, 0)
  /\ decoder = "NORMAL"
  /\ Constructor(2, 3, -1, 4, LOW)
  /\ Members(1200, 400)
  /\ NoCall
  /\ turnsLeft = -1 /\ intervalsLeft = 0
  /\ tick = TickOff
  /\ EncObserversOff
  /\ BtnObserversOff

\* Levels an idle run starts from: the ends of the range and every multiple of
\* 256 (SpecAccel reaches every level of 0 .. ENC_ACCEL_TOP, with acceleration
\* enabled and disabled).
StartLevels ==
  {l \in 0..ENC_ACCEL_TOP : l < 4 \/ l > ENC_ACCEL_TOP - 4 \/ l % 256 = 0}

\* An encoder whose knob is left alone, at any acceleration level.
InitIdle ==
  /\ levelA = HIGH /\ levelB = HIGH /\ levelBTN = HIGH /\ now = Millis(0, 0)
  /\ decoder = "NORMAL"
  /\ pinA = 2 /\ pinB = 3 /\ pinBTN = -1 /\ steps = 4 /\ pinsActive = LOW
  /\ doubleClickEnabled = TRUE /\ buttonHeldEnabled = TRUE
  /\ accelerationEnabled \in BOOLEAN
  /\ delta = 0 /\ last = 0 /\ button = "Open"
  /\ acceleration \in StartLevels
  /\ Members(1200, 400)
  /\ NoCall
  /\ turnsLeft = 0 /\ intervalsLeft = 0
  /\ tick = TickOff
  /\ applied = 0 /\ extracted = 0 /\ idleTicks = 0 /\ idleFrom = acceleration
  /\ seenIdx = 0 /\ trkDir = 0 /\ trkCnt = -1 /\ drainCnt = 0
  /\ polledEach = FALSE /\ sumR = 0 /\ nzPolls = 0
  /\ BtnObserversOff

\* A button without encoder, at rest after construction and the application's
\* setup of flags and thresholds; a bounded number of sampling intervals
\* follows.
InitButton ==
  /\ levelA = HIGH /\ levelB = HIGH /\ levelBTN = HIGH /\ now = Millis(0, 0)
  /\ decoder = "NORMAL"
  /\ \E dc \in BOOLEAN, held \in BOOLEAN : ConstructorButton(4, LOW, dc, held)
  /\ \E hold \in HoldTimes, dbl \in DoubleClickTimes : Members(hold, dbl)
  /\ NoCall
  /\ turnsLeft = 0 /\ intervalsLeft = MaxIntervals
  /\ EncObserversOff
  /\ erased = "none" /\ entry = "none" /\ prevRet = "none" /\ holdSeen = FALSE
  /\ gap = 0 /\ gap2 = 0 /\ nClicked = 0 /\ nDouble = 0

\* ... polled by getButton(), the press observer off
InitRead == InitButton /\ presses = -1 /\ tick = TickOff

\* ... its presses watched by the press observer
InitClick == InitButton /\ presses = 0 /\ tick = TickOff

\* ------------------------------------------------------------------------
\* Specifications

NextValue == Turn \/ Service \/ GetValueDrain \/ GetValueReturn
SpecValue == InitValue /\ [][NextValue]_vars

NextAccel == Turn \/ Service \/ SetAccelerationEnabled
SpecAccel == InitAccel /\ [][NextAccel]_vars

NextIdle == Service \/ GetValueDrain \/ GetValueReturn
SpecIdle == InitIdle /\ [][NextIdle]_vars

NextRead ==
  \/ PushButton \/ Advance \/ Service
  \/ GetButtonRead \/ GetButtonTest \/ GetButtonReset \/ GetButtonReturn
SpecRead == InitRead /\ [][NextRead]_vars

NextClick == PushButton \/ Advance \/ Service
SpecClick == InitClick /\ [][NextClick]_vars

\* The builds of the decoder: ENC_DECODER == ENC_NORMAL, ENC_DECODER ==
\* ENC_FLAKY with the table for normal hardware, and with the half-step table.
Decoders == {"NORMAL", "FLAKY", "FLAKY_HALFSTEP"}

\* An encoder without button in any build of the decoder, constructed with the
\* phase lines at any levels; a bounded number of phase-line changes follows,
\* every service() call watched.
InitDecode ==
  /\ levelA \in BOOLEAN /\ levelB \in BOOLEAN /\ levelBTN = HIGH /\ now = Millis(0, 0)
  /\ decoder \in Decoders
  /\ \E act \in BOOLEAN : Constructor(2, 3, -1, 4, act)
  /\ Members(1200, 400)
  /\ NoCall
  /\ turnsLeft = MaxTurns /\ intervalsLeft = 0
  /\ EncObserversOff
  /\ BtnObserversOff
  /\ tick = TickStart(0)

NextDecode == Turn \/ Service
SpecDecode == InitDecode /\ [][NextDecode]_vars

\* An encoder with button of which one pin or more is absent (negative); a
\* bounded number of phase-line changes and as many sampling intervals
\* follow, every service() call watched.
InitPins ==
  /\ levelA \in BOOLEAN /\ levelB \in BOOLEAN /\ levelBTN = HIGH /\ now = Millis(0, 0)
  /\ decoder = "NORMAL"
  /\ \E A \in {-1, 2}, B \in {-1, 3}, BTN \in {-1, 4} :
       /\ (A < 0 \/ B < 0 \/ BTN < 0)
       /\ Constructor(A, B, BTN, 4, LOW)
  /\ Members(20, 50)
  /\ NoCall
  /\ turnsLeft = MaxShort /\ intervalsLeft = MaxShort
  /\ EncObserversOff
  /\ BtnObserversOff
  /\ tick = TickStart(0)

NextPins == Turn \/ PushButton \/ Advance \/ Service
SpecPins == InitPins /\ [][NextPins]_vars

\* A button without encoder, at rest after construction and the application's
\* setup, the hold threshold below or above one sampling interval; a bounded
\* number of sampling intervals follows, every service() call watched.
InitPress ==
  /\ levelA = HIGH /\ levelB = HIGH /\ levelBTN = HIGH /\ now = Millis(0, 0)
  /\ decoder = "NORMAL"
  /\ \E dc \in BOOLEAN, held \in BOOLEAN : ConstructorButton(4, LOW, dc, held)
  /\ \E hold \in ShortHoldTimes : Members(hold, 50)
  /\ NoCall
  /\ turnsLeft = 0 /\ intervalsLeft = MaxIntervals
  /\ EncObserversOff
  /\ BtnObserversOff
  /\ tick = TickStart(0)

NextPress == PushButton \/ Advance \/ Service
SpecPress == InitPress /\ [][NextPress]_vars

\* An encoder without button, at rest after construction, its knob then in
\* continuous motion and polled by getValue(), every service() call watched.
InitMotion ==
  /\ levelA \in BOOLEAN /\ levelB \in BOOLEAN /\ levelBTN = HIGH /\ now = Millis(0, 0)
  /\ decoder = "NORMAL"
  /\ Constructor(2, 3, -1, 1, LOW)
  /\ Members(1200, 400)
  /\ NoCall
  /\ turnsLeft = 0 /\ intervalsLeft = 0
  /\ EncObserversOff
  /\ BtnObserversOff
  /\ tick = TickStart(0)

NextMotion == Spin \/ ServiceInMotion \/ GetValueDrain \/ GetValueReturn
SpecMotion == InitMotion /\ [][NextMotion]_vars

\* An encoder with acceleration enabled, at rest or at the ceiling (SpecAccel
\* reaches every level of 0 .. ENC_ACCEL_TOP); a bounded number of phase-line
\* changes follows, every service() call watched.
InitLevel ==
  /\ levelA \in BOOLEAN /\ levelB \in BOOLEAN /\ levelBTN = HIGH /\ now = Millis(0, 0)
  /\ decoder = "NORMAL"
  /\ pinA = 2 /\ pinB = 3 /\ pinBTN = -1 /\ steps = 4 /\ pinsActive = LOW
  /\ doubleClickEnabled = TRUE /\ buttonHeldEnabled = TRUE
  /\ accelerationEnabled = TRUE
  /\ delta = 0 /\ button = "Open"
  /\ last = PhaseCode(ReadActive(pinA, levelA), ReadActive(pinB, levelB))
  /\ acceleration \in {0, ENC_ACCEL_TOP}
  /\ Members(1200, 400)
  /\ NoCall
  /\ turnsLeft = MaxShort /\ intervalsLeft = 0
  /\ EncObserversOff
  /\ BtnObserversOff
  /\ tick = TickStart(0)

NextLevel == Turn \/ Service
SpecLevel == InitLevel /\ [][NextLevel]_vars

\* Values of delta getValue() finds: those near 0 and the ends of int16_t.
Deltas == (-MaxPos..MaxPos) \cup {-32768, 32767}

\* An encoder whose knob is left alone with any number of steps accumulated in
\* delta, at any of the levels of StartLevels, acceleration enabled or not;
\* getValue() is polled.
InitScale ==
  /\ levelA = HIGH /\ levelB = HIGH /\ levelBTN = HIGH /\ now = Millis(0, 0)
  /\ decoder = "NORMAL"
  /\ pinA = 2 /\ pinB = 3 /\ pinBTN = -1 /\ pinsActive = LOW
  /\ steps \in StepsPerNotch
  /\ doubleClickEnabled = TRUE /\ buttonHeldEnabled = TRUE
  /\ accelerationEnabled \in BOOLEAN
  /\ delta \in Deltas /\ last = 0 /\ button = "Open"
  /\ acceleration \in StartLevels
  /\ Members(1200, 400)
  /\ NoCall
  /\ turnsLeft = 0 /\ intervalsLeft = 0
  /\ tick = TickOff
  /\ applied = delta /\ extracted = 0 /\ idleTicks = -1 /\ idleFrom = 0
  /\ seenIdx = 0 /\ trkDir = 0 /\ trkCnt = 0 /\ drainCnt = 0
  /\ polledEach = TRUE /\ sumR = 0 /\ nzPolls = 0
  /\ BtnObserversOff

NextScale == GetValueDrain \/ GetValueReturn
SpecScale == InitScale /\ [][NextScale]_vars

\* A button without encoder, constructed when the millisecond clock is at 0
\* or a few milliseconds before it wraps; a bounded number of clock advances
\* follows, every service() call watched.
InitGate ==
  /\ levelA = HIGH /\ levelB = HIGH /\ levelBTN = HIGH
  /\ now \in {Millis(0, 0), Millis(65535, 65530)}
  /\ decoder = "NORMAL"
  /\ ConstructorButton(4, LOW, TRUE, TRUE)
  /\ Members(20, 50)
  /\ NoCall
  /\ turnsLeft = 0 /\ intervalsLeft = MaxClock
  /\ EncObserversOff
  /\ BtnObserversOff
  /\ tick = TickStart(IF now = Millis(0, 0) THEN 0 ELSE now.lo - 65536)

NextGate == PushButton \/ Clock \/ Service
SpecGate == InitGate /\ [][NextGate]_vars

\* ------------------------------------------------------------------------
\* Claims

\* C2: getValue()'s read-and-drain of delta is atomic with respect to
\* service(): whatever the interleaving and for stepsPerNotch 1, 2 and 4, the
\* sum of the steps service() applied to delta equals the current delta plus
\* stepsPerNotch times the whole notches extracted by the getValue() calls
\* (the call in flight included): no step is lost or counted twice.
C2_DrainAtomic ==
  applied = delta + steps * (extracted
                             + (IF pcV = "scale" THEN Notches(val) ELSE 0))

\* service() has preempted a getValue() that took whole notches out of delta
\* and left a residue, and has stepped delta since.
C2_Witness ==
  /\ pcV = "scale" /\ steps = 4
  /\ Notches(val) # 0 /\ Residual(val) # 0 /\ delta # Residual(val)

\* C7: with stepsPerNotch = 4 and delta drained to 0, four consecutive
\* quarter-transitions in one direction, each followed by one getValue(): the
\* polls after the first, second and third return 0 and the poll after the
\* fourth returns a nonzero value of the direction turned.
C7_FourthPollReports ==
  (steps = 4 /\ trkCnt >= 1 /\ polledEach /\ pcV = "idle" /\ drainCnt = trkCnt)
    => /\ trkCnt < 4 => rv = 0
       /\ trkCnt = 4 => Sign(rv) = trkDir

\* C10: Normal decoder, one clean detent turned from rest after construction
\* (delta drained): every valid quarter-transition changes delta by exactly one
\* in the direction turned, at most one poll returns a nonzero value, and once
\* the detent is complete and polled the polls have reported exactly one unit
\* of that direction in total.
C10_OneDetentOneUnit ==
  (decoder = "NORMAL" /\ trkCnt >= 0)
    => /\ applied = trkDir * trkCnt
       /\ nzPolls <= 1
       /\ sumR \in {0, trkDir}
       /\ (trkCnt = steps /\ pcV = "idle" /\ drainCnt = steps)
            => (sumR = trkDir /\ nzPolls = 1)

\* a whole detent of four quarter-transitions backward, polled after the last
C10_Witness ==
  /\ decoder = "NORMAL" /\ steps = 4 /\ trkCnt = 4 /\ trkDir = -1
  /\ pcV = "idle" /\ drainCnt = 4 /\ sumR = -1 /\ nzPolls = 1

\* C8: in every reachable state, whatever the movement and however
\* accelerationEnabled is toggled, 0 <= acceleration <= ENC_ACCEL_TOP.
C8_AccelerationInRange == acceleration \in 0..ENC_ACCEL_TOP

\* the level has grown to the ceiling
C8_Witness == acceleration = ENC_ACCEL_TOP /\ accelerationEnabled

C1_NoEventErased == erased = "none"

\* C3: a getButton() call that service() does not preempt returns the state
\* that was current when it was called and leaves Open behind, except Held,
\* which stays; so, with no service() call in between, the call after one that
\* returned Clicked, DoubleClicked or Released returns Open, and the call after
\* one that returned Held returns Held.
C3_ReadThenReset ==
  (pcB = "return" /\ entry # "spoiled")
    => /\ ret = entry
       /\ button = (IF ret = "Held" THEN "Held" ELSE "Open")
       /\ prevRet \in {"Clicked", "DoubleClicked", "Released"} => ret = "Open"
       /\ prevRet = "Held" => ret = "Held"

\* a call returns Open right after the call that consumed Released
C3_Witness ==
  /\ pcB = "return" /\ entry # "spoiled"
  /\ prevRet = "Released" /\ ret = "Open" /\ button = "Open"

\* C4: with held-detection enabled, once a press has been reported Held no
\* other state is visible for as long as the input reads pressed.
C4_HeldUntilRelease == holdSeen => button = "Held"

\* C5: with double-click detection enabled, two valid short presses whose
\* releases are sampled fewer than DoubleClickWindow intervals apart make
\* service() emit exactly one DoubleClicked and no Clicked.
C5_DoubleClickInWindow ==
  (doubleClickEnabled /\ presses = 2 /\ gap2 < DoubleClickWindow)
    => (nDouble = 1 /\ nClicked = 0)

\* C6: with double-click detection enabled, two valid short presses whose
\* releases are sampled more than DoubleClickWindow intervals apart make
\* service() emit no DoubleClicked and two Clicked: one before the second
\* release, the other when the second countdown has run out.
C6_TwoClicksOutsideWindow ==
  (doubleClickEnabled /\ presses = 2 /\ gap2 > DoubleClickWindow)
    => /\ nDouble = 0
       /\ nClicked >= 1
       /\ doubleClickTicks = 0 => nClicked = 2

\* both clicks of two presses far apart have been emitted
C6_Witness ==
  /\ doubleClickEnabled /\ presses = 2 /\ gap2 > DoubleClickWindow
  /\ doubleClickTicks = 0 /\ nClicked = 2 /\ nDouble = 0

\* C11: in every build of the decoder and for every combination of phase
\* levels at construction, the first service() call after construction, the
\* levels unchanged, registers no motion: delta stays 0, moved is false and
\* acceleration is not incremented.
C11_FirstTickStill ==
  (tick.n = 1 /\ tick.same)
    => (delta = 0 /\ ~tick.moved /\ acceleration <= tick.acceleration)

\* C12: a negative pin disables its channel: with phase pin A or phase pin B
\* negative no service() call changes delta, last or acceleration; with the
\* button pin negative no service() call changes button, keyDownTicks,
\* doubleClickTicks or lastButtonCheck.
C12_NegativePinDisables ==
  tick.n >= 1
    => /\ (pinA < 0 \/ pinB < 0)
            => /\ delta = tick.delta
               /\ last = tick.last
               /\ acceleration = tick.acceleration
       /\ pinBTN < 0
            => /\ button = tick.button
               /\ keyDownTicks = tick.keyDownTicks
               /\ doubleClickTicks = tick.doubleClickTicks
               /\ lastButtonCheck = tick.lastButtonCheck

\* C13: button glitches are never reported, whatever the thresholds and the
\* flags: as long as no press has read pressed in more than one sampling
\* interval the button state stays Open and the click countdown is not armed,
\* and a release only resets keyDownTicks to 0.
C13_GlitchNotReported ==
  (tick.n >= 1 /\ tick.maxDown <= 1)
    => /\ button = "Open"
       /\ doubleClickTicks = 0
       /\ tick.up => keyDownTicks = 0

\* C19: with double-click detection disabled, every valid short press (read
\* pressed in two sampling intervals or more, released while the state is not
\* Held) makes service() emit Clicked in the call that samples the release,
\* the countdown armed and run out in that call; DoubleClicked is never
\* emitted.
C19_SingleClickAtRelease ==
  ~doubleClickEnabled
    => /\ button # "DoubleClicked"
       /\ (tick.n >= 1 /\ tick.rel)
            => (button = "Clicked" /\ doubleClickTicks = 0)

\* a second short press is released right after the first was reported
C19_Witness ==
  /\ ~doubleClickEnabled /\ tick.rel /\ tick.button = "Clicked"
  /\ button = "Clicked" /\ doubleClickTicks = 0

\* C14: with acceleration enabled, after 150 or more consecutive service()
\* calls that each decoded a step of the same direction the acceleration bonus
\* is greater than 0, so a getValue() that reports movement returns a
\* magnitude strictly larger than the 1 of a single detent from rest.
C14_MotionAccelerates ==
  (accelerationEnabled /\ tick.run >= 150)
    => /\ Bonus > 0
       /\ (pcV = "scale" /\ Notches(val) # 0)
            => Abs(Result(Notches(val))) > 1

\* a poll during such a run has returned more than one unit
C14_Witness ==
  /\ accelerationEnabled /\ tick.run >= 150
  /\ pcV = "idle" /\ Abs(rv) > 1 /\ Abs(rv) = 1 + Bonus

\* C15: with acceleration enabled every service() call updates the level as
\* max(0, level - 2) and then, if its decode reported movement, as
\* min(3072, level + 25), from every level of 0 .. 3072.
C15_DecayThenGrow ==
  (tick.n >= 1 /\ accelerationEnabled)
    => LET decayed == Max(0, tick.acceleration - ENC_ACCEL_DEC)
       IN  acceleration = IF tick.moved
                          THEN Min(ENC_ACCEL_TOP, decayed + ENC_ACCEL_INC)
                          ELSE decayed

\* C16: invalid phase readings never register as movement, in any build of
\* the decoder: on a tick where both phase bits, or neither, differ from the
\* code recorded in last, delta is unchanged, moved is false and acceleration
\* is not incremented; the Normal decoder leaves last unchanged too.
C16_InvalidReadingIgnored ==
  (tick.n >= 1 /\ tick.chg \in {0, 2})
    => /\ delta = tick.delta
       /\ ~tick.moved
       /\ acceleration <= tick.acceleration
       /\ decoder = "NORMAL" => last = tick.last

\* a double-bit jump after a step that was accepted
C16_Witness ==
  /\ tick.n >= 2 /\ tick.chg = 2 /\ tick.delta # 0
  /\ delta = tick.delta /\ ~tick.moved

\* C20 as stated: in the Normal decoder last is always a code of 0 .. 3, a
\* tick changes delta by at most 1, the steps accumulated since construction
\* are congruent modulo 4 to last minus the initial last; whenever the reading
\* is back at the phase the encoder started from the accumulated steps are a
\* multiple of 4; steps forward followed by as many steps backward restore
\* the accumulated total.
C20_StepsFollowPhase ==
  decoder = "NORMAL"
    => /\ last \in 0..3
       /\ tick.n >= 1 => Abs(delta - tick.delta) <= 1
       /\ (applied - (last - tick.last0)) % 4 = 0
       /\ (tick.n >= 1 /\ tick.idx = tick.last0) => applied % 4 = 0
       /\ tick.clean => applied = tick.pos

\* C20, amended: ... whenever last is back at its initial value (as it is
\* when a reading sequence without double-bit jumps has returned to the
\* starting phase and has been sampled) the accumulated steps are a multiple
\* of 4 ...
C20_StepsFollowLast ==
  decoder = "NORMAL"
    => /\ last \in 0..3
       /\ tick.n >= 1 => Abs(delta - tick.delta) <= 1
       /\ (applied - (last - tick.last0)) % 4 = 0
       /\ last = tick.last0 => applied % 4 = 0
       /\ (tick.n >= 1 /\ tick.clean /\ tick.idx = tick.last0)
            => applied % 4 = 0
       /\ tick.clean => applied = tick.pos

\* the knob has been turned forward and back to where it started, every
\* quarter-transition sampled
C20_Witness ==
  /\ decoder = "NORMAL" /\ turnsLeft = 0 /\ tick.clean
  /\ tick.pos = 0 /\ tick.step = -1 /\ applied = 0 /\ last = tick.last0

\* C17: for every delta d and stepsPerNotch s, getValue() leaves in delta the
\* low log2(s) bits of d (0 when s = 1), so that d = s * n + residual with
\* n = d >> log2(s) and 0 <= residual < s, and returns 0 if n = 0, 1 + bonus
\* if n > 0 and -(1 + bonus) if n < 0, where bonus = acceleration >> 8 (in
\* 0 .. 12) with acceleration enabled and 0 otherwise: the result is 0 or of
\* magnitude 1 .. 13.  (applied is the d the first call found, sumR the sum
\* of the values returned; calls after the first find the residual.)
C17_ScaleAndSign ==
  LET bonus == IF accelerationEnabled THEN acceleration \div 256 ELSE 0
      n == (applied - (applied % steps)) \div steps
      expected == IF n = 0 THEN 0 ELSE IF n > 0 THEN 1 + bonus ELSE 0 - (1 + bonus)
  IN  /\ bonus \in 0..12
      /\ pcV = "scale"
           => /\ delta = val % steps
              /\ delta \in 0..(steps - 1)
              /\ val = steps * Notches(val) + delta
              /\ val \in {applied, applied % steps}
      /\ (pcV = "idle" /\ delta # applied)
           => /\ delta = applied % steps
              /\ sumR = expected
              /\ rv \in {0, expected}
      /\ (pcV = "idle" /\ delta = applied) => (sumR = 0 /\ rv = 0)
      /\ rv = 0 \/ Abs(rv) \in 1..13

\* a negative delta of whole notches and a residue, polled at the top level
C17_Witness ==
  /\ pcV = "idle" /\ steps = 4 /\ applied = -2 /\ delta = 2
  /\ accelerationEnabled /\ acceleration = ENC_ACCEL_TOP
  /\ rv = -13 /\ sumR = -13

\* C18: the button part of service() runs only when at least
\* ENC_BUTTONINTERVAL milliseconds have passed since it last ran, also across
\* a wrap of the millisecond clock, and then sets lastButtonCheck to the
\* current time; every other service() call leaves button, keyDownTicks,
\* doubleClickTicks and lastButtonCheck unchanged.
C18_GatedByElapsed ==
  tick.n >= 1
    => /\ tick.ran <=> (tick.elapsed >= ENC_BUTTONINTERVAL \/ tick.elapsed < 0)
       /\ tick.ran => lastButtonCheck = tick.now
       /\ ~tick.ran
            => /\ button = tick.button
               /\ keyDownTicks = tick.keyDownTicks
               /\ doubleClickTicks = tick.doubleClickTicks
               /\ lastButtonCheck = tick.lastButtonCheck

\* the button was sampled before the wrap of the clock and, a sampling
\* interval later, after it
C18_Witness ==
  /\ tick.n >= 2 /\ tick.ran /\ tick.elapsed >= ENC_BUTTONINTERVAL
  /\ tick.lastButtonCheck.hi = 65535 /\ tick.now.hi = 0
  /\ lastButtonCheck = tick.now

====
